---------------------------- MODULE Spec2Model ----------------------------
(***************************************************************************)
(* Model of src/app.py: the memo parser (parse_items_from_ocr_text), the   *)
(* Drive OCR helper (drive_ocr_pdf_to_text), the duplicate guard           *)
(* (memo_already_processed) and the inventory writer (apply_updates).      *)
(*                                                                         *)
(* Strings are sequences of one-character strings, so that upper(),        *)
(* strip(), splitlines() and the regular expressions are computed, not     *)
(* assumed.  The ledger part abbreviates catalog codes to one letter; the  *)
(* parser part uses the real catalog codes.                                *)
(***************************************************************************)
EXTENDS Integers, Sequences, FiniteSets, TLC

VARIABLES
    sheet,      \* INVENTORY data rows (below the header), in sheet order
    log,        \* TRANSACTIONS_LOG data rows, in sheet order
    last,       \* the last completed handler run: its inputs, result, pre-state
    applied,    \* memo ids of the uploads that were applied and logged (history)
    nUploads,   \* number of handler runs so far
    sess,       \* per browser session: position inside apply_updates and its locals
    nEdits,     \* number of manual edits of the INVENTORY sheet so far
    parse,      \* parse_items_from_ocr_text: its argument, locals and position
    ocr         \* drive_ocr_pdf_to_text: its locals and position, and the Drive files

ledgerVars == <<sheet, log, last, applied, nUploads, sess, nEdits>>

vars == <<ledgerVars, parse, ocr>>

\* ------------------------------------------------------------------ bounds

MaxRows == 2
MaxStock == 2
MaxQty == 2
MaxUploads == 2
MaxEdits == 1
RaceRows == 1
MaxLines == 2

\* ----------------------------------------------------------------- strings

LowerCase == <<"a","b","c","d","e","f","g","h","i","j","k","l","m",
               "n","o","p","q","r","s","t","u","v","w","x","y","z">>
UpperCase == <<"A","B","C","D","E","F","G","H","I","J","K","L","M",
               "N","O","P","Q","R","S","T","U","V","W","X","Y","Z">>
Digits == <<"0","1","2","3","4","5","6","7","8","9">>

Range(s) == {s[i] : i \in DOMAIN s}

SpaceChars == {" ", "\t", "\n"}
DigitChars == Range(Digits)
LowerChars == Range(LowerCase)
\* \w of the re module, for the characters the texts are made of
WordChars == Range(LowerCase) \cup Range(UpperCase) \cup Range(Digits) \cup {"_"}
UpperTable == [c \in LowerChars |-> UpperCase[CHOOSE i \in DOMAIN LowerCase : LowerCase[i] = c]]

IsSpace(c) == c \in SpaceChars
IsDigit(c) == c \in DigitChars
IsWord(c) == c \in WordChars

\* str.upper(), one character
UpperChar(c) == IF c \in LowerChars THEN UpperTable[c] ELSE c

\* str.upper()
Upper(s) == [i \in DOMAIN s |-> UpperChar(s[i])]

\* str.strip()
Strip(s) ==
    LET keep == {i \in DOMAIN s : ~IsSpace(s[i])}
    IN IF keep = {} THEN <<>>
       ELSE LET lo == CHOOSE i \in keep : \A j \in keep : i <= j
                hi == CHOOSE i \in keep : \A j \in keep : j <= i
            IN SubSeq(s, lo, hi)

\* str(c).upper().strip(): how apply_updates and read_inventory_df key a code
NormCode(c) == Strip(Upper(c))

\* The other parts at rest
NoParse == [pc |-> "off"]
NoOcr == [pc |-> "off"]

\* ---------------------------------------------------------- INVENTORY reads

\* read_inventory_df().set_index("item_code"): code -> on_hand.  The table is
\* keyed by item_code: no two rows of the sheet carry the same normalised code.
ReadInventory(sh) ==
    [c \in {NormCode(sh[i].item_code) : i \in DOMAIN sh} |->
        sh[CHOOSE i \in DOMAIN sh : NormCode(sh[i].item_code) = c].on_hand]

\* ------------------------------------------------------------ apply_updates

\* missing = [c for c in preview_df["item_code"] if str(c).upper().strip() not in inv_df.index]
Missing(preview, snap) ==
    LET Unknown(r) == NormCode(r.item_code) \notin DOMAIN snap
        rows == SelectSeq(preview, Unknown)
    IN [i \in DOMAIN rows |-> rows[i].item_code]

\* One (code, new, -qty) triple of the updates list
UpdateOf(row, snap) ==
    LET code == NormCode(row.item_code)
    IN [code |-> code, new |-> snap[code] - row.qty, qty_change |-> 0 - row.qty]

PrepareUpdates_NoGuard(preview, snap) ==
    [err |-> FALSE, updates |-> [i \in DOMAIN preview |-> UpdateOf(preview[i], snap)]]

\* The loop "Prepare updates and block negative stock": raises on the first row
\* whose new on_hand is negative, else the list of triples, one per row.
PrepareUpdates(preview, snap) ==
    LET ups == [i \in DOMAIN preview |-> UpdateOf(preview[i], snap)]
    IN IF \E i \in DOMAIN ups : ups[i].new < 0
       THEN [err |-> TRUE, updates |-> <<>>]
       ELSE [err |-> FALSE, updates |-> ups]

\* code_to_row: normalised code -> sheet row number (data row i is sheet row
\* i + 1, the header being row 1); a later row with the same code overwrites.
CodeToRow(sh) ==
    [c \in {NormCode(sh[i].item_code) : i \in DOMAIN sh} |->
        LET is == {i \in DOMAIN sh : NormCode(sh[i].item_code) = c}
        IN 1 + (CHOOSE i \in is : \A j \in is : j <= i)]

\* The loop building cell_updates: raises at the first code without a row, with
\* the cells of the codes before it collected in the local list; else one cell
\* per triple.
CellUpdates(updates, c2r) ==
    LET lost == {i \in DOMAIN updates : updates[i].code \notin DOMAIN c2r}
        n == IF lost = {} THEN Len(updates)
             ELSE (CHOOSE i \in lost : \A j \in lost : i <= j) - 1
    IN [err |-> lost # {},
        cells |-> [i \in 1..n |->
                     [row |-> c2r[updates[i].code], value |-> updates[i].new]]]

BlankRow == [item_code |-> <<>>, on_hand |-> 0]

\* ws_inventory.update_cells(cell_updates): one batch; of two cells of the same
\* row the later wins; a cell below the last data row makes a row of its own.
UpdateCells(sh, cells) ==
    LET idx == {cells[k].row - 1 : k \in DOMAIN cells}
        n == CHOOSE m \in idx \cup {Len(sh)} : \A j \in idx \cup {Len(sh)} : j <= m
        old(i) == IF i <= Len(sh) THEN sh[i] ELSE BlankRow
        lastOf(i) == CHOOSE k \in DOMAIN cells :
                        /\ cells[k].row - 1 = i
                        /\ \A j \in DOMAIN cells : cells[j].row - 1 = i => j <= k
    IN [i \in 1..n |->
          IF i \in idx THEN [old(i) EXCEPT !.on_hand = cells[lastOf(i)].value]
          ELSE old(i)]

\* log_rows: one row per triple; memo_no or "" (None is the empty string here).
\* The timestamp, source, reason, user and notes columns are passed through
\* unread and are left out.
LogRows(updates, memo) ==
    [i \in DOMAIN updates |->
        [memo_no |-> memo, item_code |-> updates[i].code,
         qty_change |-> updates[i].qty_change]]

AppendRows_Overwrite(lg, rows) == rows

\* ws_log.append_rows(log_rows)
AppendRows(lg, rows) == lg \o rows

ApplyResult_SkipUnknown(sh, lg, preview, memo) ==
    LET snap == ReadInventory(sh)
        Known(r) == NormCode(r.item_code) \in DOMAIN snap
        prep == PrepareUpdates(SelectSeq(preview, Known), snap)
    IN IF prep.err
       THEN [result |-> "negative_stock", named |-> <<>>, sheet |-> sh, log |-> lg]
       ELSE [result |-> "ok", named |-> <<>>,
             sheet |-> UpdateCells(sh, CellUpdates(prep.updates, CodeToRow(sh)).cells),
             log |-> AppendRows(lg, LogRows(prep.updates, memo))]

\* missing[:10], the codes the "not in INVENTORY sheet" error names
ErrPreview == 10
Named(missing) ==
    SubSeq(missing, 1, IF Len(missing) < ErrPreview THEN Len(missing) ELSE ErrPreview)

\* apply_updates run without interruption: its result (with the codes an
\* unknown-code error names) and the two sheets after it
ApplyResult(sh, lg, preview, memo) ==
    LET snap == ReadInventory(sh)
        missing == Missing(preview, snap)
    IN IF missing # <<>>
       THEN [result |-> "unknown_code", named |-> Named(missing),
             sheet |-> sh, log |-> lg]
       ELSE LET prep == PrepareUpdates(preview, snap)
            IN IF prep.err
               THEN [result |-> "negative_stock", named |-> <<>>,
                     sheet |-> sh, log |-> lg]
               ELSE LET cu == CellUpdates(prep.updates, CodeToRow(sh))
                    IN IF cu.err
                       THEN [result |-> "row_not_found", named |-> <<>>,
                             sheet |-> sh, log |-> lg]
                       ELSE [result |-> "ok", named |-> <<>>,
                             sheet |-> UpdateCells(sh, cu.cells),
                             log |-> AppendRows(lg, LogRows(prep.updates, memo))]

\* ------------------------------------------------------ TRANSACTIONS_LOG reads

AllDigits(s) == Len(s) > 0 /\ \A i \in DOMAIN s : IsDigit(s[i])

\* str(int(s)) for a string of digits: leading zeros are gone
IntStr(s) ==
    LET nz == {i \in DOMAIN s : s[i] # "0"}
    IN IF nz = {} THEN <<"0">>
       ELSE SubSeq(s, CHOOSE i \in nz : \A j \in nz : i <= j, Len(s))

\* str(r.get("memo_no", "")) over ws_log.get_all_records(): get_all_records
\* numericises every cell it can (int(value) first), so a memo id made of digits
\* only comes back as an int and str() prints it without its leading zeros.
\* Ids that read as a float are not among the ids the model draws.
MemoCell(cell) == IF AllDigits(cell) THEN IntStr(cell) ELSE cell

\* memo_no.strip().upper()
NormMemo(m) == Upper(Strip(m))

\* memo_already_processed(memo_no)
MemoAlreadyProcessed(lg, memo) ==
    \E k \in DOMAIN lg : NormMemo(MemoCell(lg[k].memo_no)) = NormMemo(memo)

\* ------------------------------------------------------------------ inputs

\* Item codes as typed into the preview table: any case, any padding; Z is in
\* no INVENTORY row.
RawCodes == {<<"A">>, <<" ", "a">>, <<"B">>, <<"Z">>}

\* The preview editor accepts any integer quantity.
Qtys == (0 - 1) .. MaxQty

PreviewRows == [item_code : RawCodes, qty : Qtys]

\* The preview tables of 1 .. MaxRows rows, in any order, codes repeated or not
Previews == UNION {[1..n -> PreviewRows] : n \in 1..MaxRows}

\* memo_no as passed to apply_updates: None (here <<>>) or a detected id
NoMemo == <<>>
MemoM1 == <<"M", "-", "1">>
ApplyMemos == {NoMemo, MemoM1}

\* INVENTORY as stored: codes in any case and padding, one row per code
InitSheets ==
    {<<[item_code |-> <<"A">>, on_hand |-> a],
       [item_code |-> <<"b", " ">>, on_hand |-> b]>> : a, b \in 0..MaxStock}

NoLast == [op |-> "none", memo |-> NoMemo, preview |-> <<>>, result |-> "none",
           named |-> <<>>,
           sheet0 |-> <<>>, log0 |-> <<>>, applied0 |-> {}]

\* ------------------------------------------- one call of apply_updates

InitApply ==
    /\ sheet \in InitSheets
    /\ log = <<>>
    /\ last = NoLast
    /\ applied = {}
    /\ nUploads = 0
    /\ sess = <<>>
    /\ nEdits = 0
    /\ parse = NoParse
    /\ ocr = NoOcr

\* apply_updates(preview_df, memo_no, ...), run to its end
ApplyUpdates ==
    /\ nUploads = 0
    /\ \E preview \in Previews, memo \in ApplyMemos :
          LET r == ApplyResult(sheet, log, preview, memo)
          IN /\ sheet' = r.sheet
             /\ log' = r.log
             /\ last' = [op |-> "apply", memo |-> memo, preview |-> preview,
                         result |-> r.result, named |-> r.named, sheet0 |-> sheet, log0 |-> log,
                         applied0 |-> applied]
             /\ applied' = IF r.result = "ok" THEN applied \cup {memo} ELSE applied
    /\ nUploads' = 1
    /\ UNCHANGED <<parse, ocr, sess, nEdits>>

NextApply == ApplyUpdates

SpecApply == InitApply /\ [][NextApply]_vars

\* ------------------------------------------------ claims on one call

\* The snapshot the last call read, and its rows seen against it
Snap0 == ReadInventory(last.sheet0)
RowKnown(i) == NormCode(last.preview[i].item_code) \in DOMAIN Snap0
RowShort(i) == RowKnown(i) /\ Snap0[NormCode(last.preview[i].item_code)] - last.preview[i].qty < 0
AllKnown == \A i \in DOMAIN last.preview : RowKnown(i)
Untouched == sheet = last.sheet0 /\ log = last.log0

\* C1: a call whose codes all exist in the snapshot and one of whose rows would
\* take on_hand below 0 fails, and neither INVENTORY nor TRANSACTIONS_LOG is
\* changed, also for the rows that had enough stock.
C1_NegativeStockRejected ==
    (last.op = "apply" /\ AllKnown /\ \E i \in DOMAIN last.preview : RowShort(i))
        => (last.result = "negative_stock" /\ Untouched)

C1_Witness ==
    /\ last.op = "apply" /\ AllKnown
    /\ \E i, j \in DOMAIN last.preview :
          /\ RowShort(i) /\ ~RowShort(j)
          /\ last.preview[j].qty > 0
          /\ NormCode(last.preview[i].item_code) # NormCode(last.preview[j].item_code)
    /\ last.result = "negative_stock"

\* C3: a call with a row whose code (uppercased, trimmed) is no key of the
\* snapshot fails, the error names exactly the unknown codes of the table (the
\* first ErrPreview of them), and nothing is written or logged, also for the
\* rows whose codes are known.
C3_UnknownCodeRejected ==
    (last.op = "apply" /\ ~AllKnown)
        => /\ last.result = "unknown_code"
           /\ Untouched
           /\ Len(last.named) > 0
           /\ \A c \in RawCodes :
                 (\E k \in DOMAIN last.named : last.named[k] = c)
                    <=> (\E i \in DOMAIN last.preview :
                            last.preview[i].item_code = c /\ ~RowKnown(i))

C3_Witness ==
    /\ last.op = "apply"
    /\ \E i, j \in DOMAIN last.preview :
          /\ ~RowKnown(i)
          /\ RowKnown(j) /\ ~RowShort(j) /\ last.preview[j].qty > 0
    /\ last.result = "unknown_code"

\* on_hand of a code in the INVENTORY sheet as it is now
OnHandNow(code) == ReadInventory(sheet)[code]
NewLogRows == SubSeq(log, Len(last.log0) + 1, Len(log))

\* C4: on success the call makes exactly one stock mutation and one log entry per
\* distinct code of its input; each code's written on_hand is the snapshot value
\* minus the requested quantity, each log delta is minus the requested quantity
\* and negative, and the memo field is the memo id or the empty string.
C4_OneMutationPerCode ==
    (last.op \in {"apply", "upload"} /\ last.result = "ok")
        => /\ Len(NewLogRows) =
                Cardinality({NormCode(last.preview[i].item_code) : i \in DOMAIN last.preview})
           /\ \A i \in DOMAIN last.preview :
                 LET code == NormCode(last.preview[i].item_code)
                     qty == last.preview[i].qty
                 IN /\ OnHandNow(code) = Snap0[code] - qty
                    /\ \E k \in DOMAIN NewLogRows :
                          /\ NewLogRows[k].item_code = code
                          /\ NewLogRows[k].qty_change = 0 - qty
                          /\ NewLogRows[k].qty_change < 0
                          /\ NewLogRows[k].memo_no = last.memo

\* --------------------------------------------- uploads, one at a time

\* Detected memo ids: MEMO_RE captures letters of either case, digits and
\* hyphens; None when the text has no "Memo #".
UploadMemos == {NoMemo, MemoM1, <<"m", "-", "1">>, <<"0", "7">>}

\* The preview as the parser fills it (quantities 1 and up), rows added or
\* retyped in the editor included
UploadPreviews ==
    UNION {[1..n -> [item_code : RawCodes, qty : 1..MaxQty]] : n \in 1..MaxRows}

SeqSheet ==
    <<[item_code |-> <<"A">>, on_hand |-> MaxStock],
      [item_code |-> <<"b", " ">>, on_hand |-> MaxStock]>>

InitSeq ==
    /\ sheet = SeqSheet
    /\ log = <<>>
    /\ last = NoLast
    /\ applied = {}
    /\ nUploads = 0
    /\ sess = <<>>
    /\ nEdits = 0
    /\ parse = NoParse
    /\ ocr = NoOcr

\* One upload, from the duplicate check to the end of the confirm handler:
\* "if memo_no and memo_already_processed(memo_no): st.stop()", else
\* apply_updates(edited_df, memo_no, ...) with its errors caught and shown.
UploadResult(sh, lg, preview, memo) ==
    IF memo # NoMemo /\ MemoAlreadyProcessed(lg, memo)
    THEN [result |-> "duplicate", named |-> <<>>, sheet |-> sh, log |-> lg]
    ELSE ApplyResult(sh, lg, preview, memo)

Upload ==
    /\ nUploads < MaxUploads
    /\ \E preview \in UploadPreviews, memo \in UploadMemos :
          LET r == UploadResult(sheet, log, preview, memo)
          IN /\ sheet' = r.sheet
             /\ log' = r.log
             /\ last' = [op |-> "upload", memo |-> memo, preview |-> preview,
                         result |-> r.result, named |-> r.named,
                         sheet0 |-> sheet, log0 |-> log, applied0 |-> applied]
             /\ applied' = IF r.result = "ok" THEN applied \cup {memo} ELSE applied
    /\ nUploads' = nUploads + 1
    /\ UNCHANGED <<parse, ocr, sess, nEdits>>

NextSeq == Upload

SpecSeq == InitSeq /\ [][NextSeq]_vars

\* C2: once a memo with detected id M has been applied and logged, every later
\* upload whose detected id equals M after trimming and case-folding is halted
\* as a duplicate and changes neither sheet; an upload whose id no earlier
\* upload carried is applied when its codes are known and its stock suffices.
C2_DuplicateRejected ==
    (last.op = "upload" /\ last.memo # NoMemo)
        => /\ (\E m \in last.applied0 : NormMemo(m) = NormMemo(last.memo))
                 => (last.result = "duplicate" /\ Untouched)
           /\ ((\A k \in DOMAIN last.log0 :
                    NormMemo(last.log0[k].memo_no) # NormMemo(last.memo))
               /\ AllKnown /\ \A i \in DOMAIN last.preview : ~RowShort(i))
                 => last.result = "ok"

RECURSIVE SumDeltas(_, _)
SumDeltas(lg, code) ==
    IF lg = <<>> THEN 0
    ELSE (IF Head(lg).item_code = code THEN Head(lg).qty_change ELSE 0)
            + SumDeltas(Tail(lg), code)

\* C10: after any sequence of calls run one at a time, every code's on_hand in
\* INVENTORY is its initial on_hand plus the sum of the deltas logged for it,
\* and no on_hand is negative.
C10_LedgerConservation ==
    \A code \in DOMAIN ReadInventory(SeqSheet) :
        /\ OnHandNow(code) = ReadInventory(SeqSheet)[code] + SumDeltas(log, code)
        /\ OnHandNow(code) >= 0

\* ------------------------------------- apply_updates, one sheet call at a time

\* A session is one browser session running the script; its record holds the
\* position inside apply_updates and the locals of the call.  written and
\* logged count the cells and log rows the call has sent to the sheets so far.
NewSession(preview, memo) ==
    [pc |-> "start", preview |-> preview, memo |-> memo, snap |-> <<>>,
     updates |-> <<>>, cells |-> <<>>, result |-> "none",
     written |-> 0, logged |-> 0]

\* Lines 162-178: the snapshot read and the two validations on it
SnapshotStep(sh, preview) ==
    LET snap == ReadInventory(sh)
    IN IF Missing(preview, snap) # <<>>
       THEN [result |-> "unknown_code", snap |-> snap, updates |-> <<>>]
       ELSE LET prep == PrepareUpdates(preview, snap)
            IN IF prep.err
               THEN [result |-> "negative_stock", snap |-> snap, updates |-> <<>>]
               ELSE [result |-> "none", snap |-> snap, updates |-> prep.updates]

ScanStep_WriteAsFound(sh, updates) ==
    LET cu == CellUpdates(updates, CodeToRow(sh))
    IN [err |-> cu.err, cells |-> cu.cells,
        sheet |-> IF cu.err THEN UpdateCells(sh, cu.cells) ELSE sh,
        written |-> IF cu.err THEN Len(cu.cells) ELSE 0]

\* Lines 181-196: the fresh read of the sheet and the row scan.  Nothing is
\* sent to the sheet here: the cells are collected for the batch of line 198.
ScanStep(sh, updates) ==
    LET cu == CellUpdates(updates, CodeToRow(sh))
    IN [err |-> cu.err, cells |-> cu.cells, sheet |-> sh, written |-> 0]

ReadSnapshot(s) ==
    /\ sess[s].pc = "start"
    /\ LET r == SnapshotStep(sheet, sess[s].preview)
       IN sess' = [sess EXCEPT ![s].snap = r.snap, ![s].updates = r.updates,
                               ![s].result = r.result,
                               ![s].pc = IF r.result = "none" THEN "scan" ELSE "failed"]
    /\ UNCHANGED <<parse, ocr, sheet, log, last, applied, nUploads, nEdits>>

ScanRows(s) ==
    /\ sess[s].pc = "scan"
    /\ LET r == ScanStep(sheet, sess[s].updates)
       IN /\ sheet' = r.sheet
          /\ sess' = [sess EXCEPT ![s].cells = r.cells, ![s].written = r.written,
                                  ![s].result = IF r.err THEN "row_not_found" ELSE "none",
                                  ![s].pc = IF r.err THEN "failed" ELSE "write"]
    /\ UNCHANGED <<parse, ocr, log, last, applied, nUploads, nEdits>>

\* Line 198
WriteCells(s) ==
    /\ sess[s].pc = "write"
    /\ sheet' = UpdateCells(sheet, sess[s].cells)
    /\ sess' = [sess EXCEPT ![s].written = Len(sess[s].cells), ![s].pc = "log"]
    /\ UNCHANGED <<parse, ocr, log, last, applied, nUploads, nEdits>>

\* Lines 200-205, and the "Inventory updated" message of the caller
AppendLog(s) ==
    /\ sess[s].pc = "log"
    /\ log' = AppendRows(log, LogRows(sess[s].updates, sess[s].memo))
    /\ sess' = [sess EXCEPT ![s].logged = Len(sess[s].updates),
                            ![s].result = "ok", ![s].pc = "done"]
    /\ UNCHANGED <<parse, ocr, sheet, last, applied, nUploads, nEdits>>

\* Somebody deletes a row of the INVENTORY sheet by hand; the rows below move up
EditSheet ==
    /\ nEdits < MaxEdits
    /\ \E i \in DOMAIN sheet :
          sheet' = SubSeq(sheet, 1, i - 1) \o SubSeq(sheet, i + 1, Len(sheet))
    /\ nEdits' = nEdits + 1
    /\ UNCHANGED <<parse, ocr, log, last, applied, nUploads, sess>>

\* One call against a sheet that is edited by hand meanwhile
InitEdit ==
    /\ sheet = SeqSheet
    /\ log = <<>>
    /\ last = NoLast
    /\ applied = {}
    /\ nUploads = 0
    /\ sess \in [{1} -> {NewSession(p, MemoM1) : p \in UploadPreviews}]
    /\ nEdits = 0
    /\ parse = NoParse
    /\ ocr = NoOcr

NextEdit ==
    \/ ReadSnapshot(1)
    \/ ScanRows(1)
    \/ WriteCells(1)
    \/ AppendLog(1)
    \/ EditSheet

SpecEdit == InitEdit /\ [][NextEdit]_vars

\* C6 (amended): a call that fails because a code's row cannot be located has
\* sent nothing to the sheets: no on_hand cell written, no log row appended;
\* every INVENTORY row still present is as it was.
C6_RowNotFoundBeforeAnyWrite ==
    (sess[1].result = "row_not_found")
        => /\ sess[1].written = 0 /\ sess[1].logged = 0
           /\ log = <<>>
           /\ \A i \in DOMAIN sheet : sheet[i] \in Range(SeqSheet)

\* A call whose first code was located and whose later code was not
C6_Witness ==
    /\ sess[1].result = "row_not_found"
    /\ Len(sess[1].cells) > 0
    /\ sess[1].written = 0

\* C6 (as stated): the failure arrives mid-write: when the row of a code is not
\* found after the rows of earlier codes of the call were located, on_hand
\* cells of the call have been written at the moment of the failure.
C6_RowNotFoundMidWrite ==
    (sess[1].result = "row_not_found" /\ Len(sess[1].cells) > 0)
        => sess[1].written > 0

\* ------------------------------------------------- two uploads interleaved

\* Codes and quantities of the two racing previews
RaceCodes == {<<"A">>, <<" ", "a">>, <<"B">>}
RacePreviews ==
    UNION {[1..n -> [item_code : RaceCodes, qty : {1, MaxQty}]] : n \in 1..RaceRows}

InitRace ==
    /\ sheet = SeqSheet
    /\ log = <<>>
    /\ last = NoLast
    /\ applied = {}
    /\ nUploads = 0
    /\ sess \in [{1, 2} -> {NewSession(p, NoMemo) : p \in RacePreviews}]
    /\ nEdits = 0
    /\ parse = NoParse
    /\ ocr = NoOcr

NextRace ==
    \E s \in {1, 2} :
        \/ ReadSnapshot(s)
        \/ ScanRows(s)
        \/ WriteCells(s)
        \/ AppendLog(s)

SpecRace == InitRace /\ [][NextRace]_vars

BothDone == sess[1].pc = "done" /\ sess[2].pc = "done"
RowsOf(s) == LogRows(sess[s].updates, sess[s].memo)
\* The on_hand values session s computed for a code
NewValues(s, code) ==
    {sess[s].updates[i].new : i \in {j \in DOMAIN sess[s].updates : sess[s].updates[j].code = code}}
RECURSIVE SumQty(_, _)
SumQty(preview, code) ==
    IF preview = <<>> THEN 0
    ELSE (IF NormCode(Head(preview).item_code) = code THEN Head(preview).qty ELSE 0)
            + SumQty(Tail(preview), code)

\* C5: when two interleaved uploads both report success, both sets of log rows
\* are in the log, and every on_hand is a value one of the two calls computed
\* from its own snapshot (or the initial one for a code neither names): the
\* later write stands, whatever the other call wrote.
C5_LastWriteWins ==
    BothDone
        => /\ sess[1].result = "ok" /\ sess[2].result = "ok"
           /\ log \in {RowsOf(1) \o RowsOf(2), RowsOf(2) \o RowsOf(1)}
           /\ \A code \in DOMAIN ReadInventory(SeqSheet) :
                 LET vals == NewValues(1, code) \cup NewValues(2, code)
                 IN OnHandNow(code) \in
                       (IF vals = {} THEN {ReadInventory(SeqSheet)[code]} ELSE vals)

\* Both calls read the snapshot before either wrote, both succeeded, and the
\* final on_hand is not the initial one minus the two quantities.
C5_Witness ==
    /\ BothDone
    /\ \E code \in DOMAIN ReadInventory(SeqSheet) :
          /\ SumQty(sess[1].preview, code) > 0 /\ SumQty(sess[2].preview, code) > 0
          /\ sess[1].snap[code] = ReadInventory(SeqSheet)[code]
          /\ sess[2].snap[code] = ReadInventory(SeqSheet)[code]
          /\ OnHandNow(code) # ReadInventory(SeqSheet)[code]
                - SumQty(sess[1].preview, code) - SumQty(sess[2].preview, code)
          /\ Len(log) = Len(sess[1].preview) + Len(sess[2].preview)

\* ------------------------------------------------ parse_items_from_ocr_text

\* \b at position p of s: between s[p - 1] and s[p], one a word character and
\* the other not (no character counts as not)
Boundary(s, p) ==
    LET W(k) == k \in DOMAIN s /\ IsWord(s[k])
    IN W(p - 1) # W(p)

\* The first position from p on that holds no whitespace (Len(s) + 1 if none): \s*
SkipSpaces(s, p) ==
    LET stop == {k \in p..Len(s) : ~IsSpace(s[k])}
    IN IF stop = {} THEN Len(s) + 1 ELSE CHOOSE k \in stop : \A j \in stop : k <= j

\* s has the characters of w (upper case) at position p, in either case
HasAt(s, p, w) ==
    /\ p >= 1 /\ p + Len(w) - 1 <= Len(s)
    /\ \A k \in DOMAIN w : UpperChar(s[p + k - 1]) = w[k]

\* "SHIPPING" in u
Contains(u, w) == \E p \in 1..Len(u) : HasAt(u, p, w)

\* ITEM_RE = \b(?:BR|BS|GB)[2-8][YW]-14K(?:-(?:1|2|3|4))?\b, re.I: the length of
\* the match that starts at p, 0 if none.  The optional finish suffix is tried
\* first and given up if no \b follows it.
ItemPrefixes == {<<"B", "R">>, <<"B", "S">>, <<"G", "B">>}
ItemSizes == {"2", "3", "4", "5", "6", "7", "8"}
ItemColors == {"Y", "W"}
ItemKarat == <<"-", "1", "4", "K">>
ItemFinishes == {"1", "2", "3", "4"}

ItemMatchAt(s, p) ==
    IF /\ Boundary(s, p)
       /\ p + 7 <= Len(s)
       /\ \E w \in ItemPrefixes : HasAt(s, p, w)
       /\ s[p + 2] \in ItemSizes
       /\ UpperChar(s[p + 3]) \in ItemColors
       /\ HasAt(s, p + 4, ItemKarat)
    THEN IF /\ p + 9 <= Len(s) /\ s[p + 8] = "-" /\ s[p + 9] \in ItemFinishes
            /\ Boundary(s, p + 10)
         THEN 10
         ELSE IF Boundary(s, p + 8) THEN 8 ELSE 0
    ELSE 0

\* ITEM_RE.search(ln): code_match.group(0).upper(), <<>> if no match
ItemSearch(ln) ==
    LET hits == {p \in DOMAIN ln : ItemMatchAt(ln, p) > 0}
    IN IF hits = {} THEN <<>>
       ELSE LET p == CHOOSE q \in hits : \A j \in hits : q <= j
            IN Upper(SubSeq(ln, p, p + ItemMatchAt(ln, p) - 1))

\* re.search(r"\b(\d+)\b", ln): group(1), <<>> if no match.  A run of digits
\* matches only with a \b on both sides, wherever on the line it stands.
QtyEnds(ln, p) ==
    {e \in p..Len(ln) : (\A k \in p..e : IsDigit(ln[k])) /\ Boundary(ln, e + 1)}

QtySearch(ln) ==
    LET hits == {p \in DOMAIN ln : Boundary(ln, p) /\ QtyEnds(ln, p) # {}}
    IN IF hits = {} THEN <<>>
       ELSE LET p == CHOOSE q \in hits : \A j \in hits : q <= j
                e == CHOOSE q \in QtyEnds(ln, p) : \A j \in QtyEnds(ln, p) : j <= q
            IN SubSeq(ln, p, e)

DigitValue(c) == (CHOOSE i \in DOMAIN Digits : Digits[i] = c) - 1

\* int(qty_match.group(1))
RECURSIVE ToInt(_)
ToInt(d) ==
    IF d = <<>> THEN 0
    ELSE 10 * ToInt(SubSeq(d, 1, Len(d) - 1)) + DigitValue(d[Len(d)])

\* The OCR-noise guard: qty <= 0 or qty > 999 is skipped
QtyMax == 999

\* MEMO_RE = \bMemo\s*#\s*[:\-]?\s*([A-Z0-9\-]+)\b, re.I: group(1) of the match
\* that starts at p, <<>> if none.  \s* runs over line ends too.
MemoWord == <<"M", "E", "M", "O">>
IsMemoChar(c) == UpperChar(c) \in Range(UpperCase) \/ IsDigit(c) \/ c = "-"

\* The longest run of memo characters from p that ends at a \b; 0 if none
MemoEnd(s, p) ==
    LET ends == {e \in p..Len(s) : (\A k \in p..e : IsMemoChar(s[k])) /\ Boundary(s, e + 1)}
    IN IF ends = {} THEN 0 ELSE CHOOSE e \in ends : \A j \in ends : j <= e

MemoMatchAt(s, p) ==
    IF Boundary(s, p) /\ HasAt(s, p, MemoWord)
    THEN LET h == SkipSpaces(s, p + 4)
         IN IF h <= Len(s) /\ s[h] = "#"
            THEN LET q == SkipSpaces(s, h + 1)
                     r == IF q <= Len(s) /\ s[q] \in {":", "-"}
                          THEN SkipSpaces(s, q + 1) ELSE q
                 IN IF MemoEnd(s, r) > 0 THEN SubSeq(s, r, MemoEnd(s, r))
                    ELSE IF MemoEnd(s, q) > 0 THEN SubSeq(s, q, MemoEnd(s, q))
                    ELSE <<>>
            ELSE <<>>
    ELSE <<>>

\* MEMO_RE.search(text): m.group(1).strip(), None (<<>>) if no match
MemoSearch(text) ==
    LET hits == {p \in DOMAIN text : MemoMatchAt(text, p) # <<>>}
    IN IF hits = {} THEN NoMemo
       ELSE Strip(MemoMatchAt(text, CHOOSE q \in hits : \A j \in hits : q <= j))

\* text.splitlines(), for texts whose only line end is \n
RECURSIVE SplitLines(_)
SplitLines(text) ==
    LET nl == {k \in DOMAIN text : text[k] = "\n"}
    IN IF text = <<>> THEN <<>>
       ELSE IF nl = {} THEN <<text>>
       ELSE LET k == CHOOSE q \in nl : \A j \in nl : q <= j
            IN <<SubSeq(text, 1, k - 1)>> \o SplitLines(SubSeq(text, k + 1, Len(text)))

\* lines = [ln.strip() for ln in text.splitlines() if ln.strip()]
StrippedLines(text) ==
    LET NonBlank(ln) == Strip(ln) # <<>>
        kept == SelectSeq(SplitLines(text), NonBlank)
    IN [i \in DOMAIN kept |-> Strip(kept[i])]

\* items.get(code, 0)
ItemsGet(items, code) == IF code \in DOMAIN items THEN items[code] ELSE 0

\* One pass of the loop over lines: the items dict after the line
LineStep(items, ln) ==
    LET u == Upper(ln)
        code == ItemSearch(ln)
        qty == QtySearch(ln)
    IN IF Contains(u, <<"S","H","I","P","P","I","N","G">>)
          \/ Contains(u, <<"I","N","S","U","R","A","N","C","E">>)
       THEN items
       ELSE IF code = <<>> THEN items
       ELSE IF qty = <<>> THEN items
       ELSE IF ToInt(qty) <= 0 \/ ToInt(qty) > QtyMax THEN items
       ELSE [c \in DOMAIN items \cup {code} |->
               IF c = code THEN ItemsGet(items, code) + ToInt(qty) ELSE items[c]]

\* --- the texts parsed

RECURSIVE Join(_)
Join(lns) ==
    IF lns = <<>> THEN <<>>
    ELSE IF Len(lns) = 1 THEN lns[1]
    ELSE lns[1] \o <<"\n">> \o Join(Tail(lns))

CodeBR == <<"B","R","2","Y","-","1","4","K">>
CodeGB2 == <<"G","B","5","W","-","1","4","K","-","2">>
CodeBSlow == <<"b","s","8","w","-","1","4","k">>
TextCodes == {CodeBR, CodeGB2, CodeBSlow}
TextQtys == {<<"1">>, <<"3">>, <<"5">>, <<"9","9","9">>, <<"1","0","0","0">>}

\* An item line as a memo prints it: the code, then the quantity and the unit
ItemLine(code, q) ==
    code \o <<" ", " ">> \o q \o
        (IF q = <<"1">> THEN <<" ","u","n","i","t">> ELSE <<" "," ","u","n","i","t","s">>)
MemoLine == <<"M","e","m","o"," ","#"," ",":"," ","M","-","4","2">>
ShippingLine == <<"S","h","i","p","p","i","n","g"," ","2">>

\* The printed item lines of a text, and the text built from them
Printed == UNION {[1..n -> [code : TextCodes, qty : TextQtys]] : n \in 1..MaxLines}
TextOf(src, memo, ship) ==
    Join((IF memo THEN <<MemoLine>> ELSE <<>>)
         \o [i \in DOMAIN src |-> ItemLine(src[i].code, src[i].qty)]
         \o (IF ship THEN <<ShippingLine>> ELSE <<>>))

InitParse ==
    /\ sheet = <<>>
    /\ log = <<>>
    /\ last = NoLast
    /\ applied = {}
    /\ nUploads = 0
    /\ sess = <<>>
    /\ nEdits = 0
    /\ ocr = NoOcr
    /\ \E src \in Printed, memo \in BOOLEAN, ship \in BOOLEAN :
          parse = [pc |-> "start", src |-> src, text |-> TextOf(src, memo, ship),
                   memo_no |-> NoMemo, lines |-> <<>>, i |-> 1, items |-> <<>>]

\* Lines 107-113
ParseMemo ==
    /\ parse.pc = "start"
    /\ parse' = [parse EXCEPT !.memo_no = MemoSearch(parse.text),
                              !.lines = StrippedLines(parse.text),
                              !.pc = "loop"]
    /\ UNCHANGED <<ledgerVars, ocr>>

\* Lines 115-136, one line
ParseLine ==
    /\ parse.pc = "loop"
    /\ parse.i <= Len(parse.lines)
    /\ parse' = [parse EXCEPT !.items = LineStep(parse.items, parse.lines[parse.i]),
                              !.i = parse.i + 1]
    /\ UNCHANGED <<ledgerVars, ocr>>

\* Line 138
ParseReturn ==
    /\ parse.pc = "loop"
    /\ parse.i > Len(parse.lines)
    /\ parse' = [parse EXCEPT !.pc = "done"]
    /\ UNCHANGED <<ledgerVars, ocr>>

NextParse == ParseMemo \/ ParseLine \/ ParseReturn

SpecParse == InitParse /\ [][NextParse]_vars

\* The text of the end-to-end scenario
ScenarioText ==
    TextOf(<<[code |-> CodeBR, qty |-> <<"3">>], [code |-> CodeGB2, qty |-> <<"1">>]>>,
           TRUE, TRUE)

\* C7: for the scenario text the parser returns memo id "M-42" and the items
\* BR2Y-14K: 3, GB5W-14K-2: 1; and for any text of one printed item line the
\* quantity taken is the quantity printed on the line (when it is in 1..999).
C7_ScenarioParsed ==
    (parse.pc = "done")
        => /\ (parse.text = ScenarioText)
                 => /\ parse.memo_no = <<"M", "-", "4", "2">>
                    /\ DOMAIN parse.items = {CodeBR, CodeGB2}
                    /\ parse.items[CodeBR] = 3
                    /\ parse.items[CodeGB2] = 1
           /\ (Len(parse.src) = 1 /\ ToInt(parse.src[1].qty) \in 1..QtyMax)
                 => /\ DOMAIN parse.items = {Upper(parse.src[1].code)}
                    /\ parse.items[Upper(parse.src[1].code)] = ToInt(parse.src[1].qty)

\* C8: a code (with or without finish suffix) printed on two lines with
\* quantities q1 and q2, both in 1..999, is mapped to q1 + q2.
C8_Aggregation ==
    (/\ parse.pc = "done" /\ Len(parse.src) = 2
     /\ parse.src[1].code = parse.src[2].code
     /\ ToInt(parse.src[1].qty) \in 1..QtyMax
     /\ ToInt(parse.src[2].qty) \in 1..QtyMax)
        => /\ Upper(parse.src[1].code) \in DOMAIN parse.items
           /\ parse.items[Upper(parse.src[1].code)]
                 = ToInt(parse.src[1].qty) + ToInt(parse.src[2].qty)

\* ---------------------------------------------------- drive_ocr_pdf_to_text

\* File ids as Drive hands them out; None is 0
NoId == 0
PdfId == 1
DocId == 2

Filenames == {"memo.pdf", "scan.pdf"}
ExportedTexts == {"", "BR2Y-14K 3", "Memo # M-42"}

\* What a Drive call can do: return, raise HttpError (whose content decodes,
\* or does not and str(e) is used), or raise something else (a transport error)
CallOutcomes == {"ok", "http_content", "http_str", "other"}

\* The exception that leaves the try block for a failed call: lines 80-86 wrap
\* an HttpError into RuntimeError with its detail; anything else passes as is.
Raised(call, how) ==
    IF how = "other" THEN [kind |-> "error", what |-> call]
    ELSE [kind |-> "RuntimeError", what |-> how]

Pending == [kind |-> "none", what |-> ""]

\* "except Exception: pass" around a delete: what the delete raised is dropped,
\* and the pending return value or exception stands
Swallow(outcome, ok) == outcome

CleanupNext_OneTry(failed) == IF failed THEN "done" ELSE "cleanup_pdf"

\* Lines 90-95: the delete of the Doc has a try of its own, so that the delete
\* of the PDF is reached whether it failed or not.
CleanupNext(failed) == "cleanup_pdf"

InitOcr ==
    /\ sheet = <<>>
    /\ log = <<>>
    /\ last = NoLast
    /\ applied = {}
    /\ nUploads = 0
    /\ sess = <<>>
    /\ nEdits = 0
    /\ parse = NoParse
    /\ \E f \in Filenames :
          ocr = [pc |-> "create", filename |-> f,
                 pdf_file_id |-> NoId, doc_file_id |-> NoId,
                 files |-> {}, created |-> {}, attempted |-> {}, failed |-> {},
                 decided |-> Pending, outcome |-> Pending]

\* A call of the try block fails: the outcome of the function is decided, and
\* control goes to the finally block
OcrFail(call, how) ==
    ocr' = [ocr EXCEPT !.decided = Raised(call, how), !.outcome = Raised(call, how),
                       !.pc = "cleanup_doc"]

\* Lines 54-63
CreatePdf ==
    /\ ocr.pc = "create"
    /\ \E how \in CallOutcomes :
          IF how = "ok"
          THEN ocr' = [ocr EXCEPT !.pdf_file_id = PdfId,
                                  !.files = @ \cup {[id |-> PdfId, name |-> <<"UPLOAD", ocr.filename>>]},
                                  !.created = @ \cup {PdfId},
                                  !.pc = "copy"]
          ELSE OcrFail("create", how)
    /\ UNCHANGED <<ledgerVars, parse>>

\* Lines 66-74
CopyToDoc ==
    /\ ocr.pc = "copy"
    /\ \E how \in CallOutcomes :
          IF how = "ok"
          THEN ocr' = [ocr EXCEPT !.doc_file_id = DocId,
                                  !.files = @ \cup {[id |-> DocId, name |-> <<"OCR", ocr.filename>>]},
                                  !.created = @ \cup {DocId},
                                  !.pc = "export"]
          ELSE OcrFail("copy", how)
    /\ UNCHANGED <<ledgerVars, parse>>

\* Lines 77-78
ExportText ==
    /\ ocr.pc = "export"
    /\ \E how \in CallOutcomes, t \in ExportedTexts :
          IF how = "ok"
          THEN ocr' = [ocr EXCEPT !.decided = [kind |-> "text", what |-> t],
                                  !.outcome = [kind |-> "text", what |-> t],
                                  !.pc = "cleanup_doc"]
          ELSE OcrFail("export", how)
    /\ UNCHANGED <<ledgerVars, parse>>

\* One delete of the finally block: attempted when the id was set; it removes
\* the file or raises, and "except Exception: pass" drops what it raises.
DeleteFile(id, ok, next) ==
    IF id = NoId
    THEN ocr' = [ocr EXCEPT !.pc = next]
    ELSE ocr' = [ocr EXCEPT !.attempted = @ \cup {id},
                            !.files = IF ok THEN {f \in @ : f.id # id} ELSE @,
                            !.failed = IF ok THEN @ ELSE @ \cup {id},
                            !.outcome = Swallow(@, ok),
                            !.pc = next]

\* Lines 90-94
DeleteDoc ==
    /\ ocr.pc = "cleanup_doc"
    /\ \E ok \in BOOLEAN : DeleteFile(ocr.doc_file_id, ok, CleanupNext(~ok))
    /\ UNCHANGED <<ledgerVars, parse>>

\* Lines 95-99, and the return or raise that was pending
DeletePdf ==
    /\ ocr.pc = "cleanup_pdf"
    /\ \E ok \in BOOLEAN : DeleteFile(ocr.pdf_file_id, ok, "done")
    /\ UNCHANGED <<ledgerVars, parse>>

NextOcr == CreatePdf \/ CopyToDoc \/ ExportText \/ DeleteDoc \/ DeletePdf

SpecOcr == InitOcr /\ [][NextOcr]_vars

\* C9: on every exit path a delete is attempted for every temporary file whose
\* creation succeeded; a failing delete of one does not prevent the attempt on
\* the other; a file whose delete did not fail is gone; and the function ends
\* with the text or the error that was decided before the cleanup.
C9_CleanupAlwaysAttempted ==
    (ocr.pc = "done")
        => /\ ocr.created \subseteq ocr.attempted
           /\ {f.id : f \in ocr.files} = ocr.failed
           /\ ocr.outcome = ocr.decided
           /\ ocr.outcome.kind # "none"

\* The export failed after both files were made, and the delete of the Doc
\* failed: the delete of the PDF was still attempted.
C9_Witness ==
    /\ ocr.pc = "done"
    /\ ocr.created = {PdfId, DocId}
    /\ DocId \in ocr.failed
    /\ PdfId \in ocr.attempted
    /\ ocr.outcome.kind = "RuntimeError"

=============================================================================
